---------------------------- MODULE Spec2Model ----------------------------
(***************************************************************************)
(* A model of go-media-posters: the tree package (tree/tree.go), which     *)
(* indexes a directory subtree in a background goroutine and exposes a     *)
(* cursor-based navigation API, and the part of the MediaGrid widget       *)
(* (ui/mediagrid.go) that reads the tree.                                  *)
(*                                                                         *)
(* File names are sequences of one-character strings so that the string    *)
(* functions the code uses (ToLower, HasSuffix, TrimSuffix, filepath.Ext)  *)
(* are computed rather than assumed.  A path is the identity of a file     *)
(* system entry: its index in FS.  A *Node is an index into heap; 0 is the *)
(* nil pointer, the empty path and the empty string.                       *)
(***************************************************************************)
EXTENDS Integers, Sequences, FiniteSets, TLC

----------------------------------------------------------------------------
(* Bounds of the model *)

\* how many cache entries may reach their TTL in one run
MaxExpire == 2

\* column counts the consumer passes to NavigateUp/NavigateDown: 1..MaxCols
MaxCols == 2

\* per-directory caps a filter is given besides the default one: 1..MaxCap
MaxCap == 2

\* directories of at most this many entries are visited in every order;
\* larger ones in sorted and in reverse sorted order
MaxPermuted == 3

\* how many times the grid is rebuilt in one run
MaxRefresh == 3

\* the item lists a rebuild is given have 0..MaxItems items
MaxItems == 3

\* MediaGrid.batchSize, 50 in NewMediaGrid, scaled down to the lists above
BatchSize == 1

----------------------------------------------------------------------------
(* Strings *)

Max(S) == CHOOSE x \in S : \A y \in S : y <= x

Min2(a, b) == IF a <= b THEN a ELSE b
Max2(a, b) == IF a >= b THEN a ELSE b

\* the characters in byte order
Alphabet ==
    <<"-", ".", "0", "1", "2", "3", "4", "5", "6", "7", "8", "9",
      "A", "B", "C", "D", "E", "F", "G", "H", "I", "J", "K", "L", "M",
      "N", "O", "P", "Q", "R", "S", "T", "U", "V", "W", "X", "Y", "Z",
      "a", "b", "c", "d", "e", "f", "g", "h", "i", "j", "k", "l", "m",
      "n", "o", "p", "q", "r", "s", "t", "u", "v", "w", "x", "y", "z">>

Ord(c) == CHOOSE i \in 1..Len(Alphabet) : Alphabet[i] = c

\* strings.ToLower on one byte: 'A'..'Z' (positions 13..38) move 26 up
LowerChar(c) == IF Ord(c) >= 13 /\ Ord(c) <= 38 THEN Alphabet[Ord(c) + 26] ELSE c

ToLower(s) == [i \in 1..Len(s) |-> LowerChar(s[i])]

HasPrefix(s, pre) == Len(s) >= Len(pre) /\ SubSeq(s, 1, Len(pre)) = pre

HasSuffix(s, suf) ==
    Len(s) >= Len(suf) /\ SubSeq(s, Len(s) - Len(suf) + 1, Len(s)) = suf

TrimSuffix(s, suf) ==
    IF HasSuffix(s, suf) THEN SubSeq(s, 1, Len(s) - Len(suf)) ELSE s

\* filepath.Ext: the suffix starting at the last dot, "" if there is none
Ext(s) ==
    LET dots == {i \in 1..Len(s) : s[i] = "."}
    IN  IF dots = {} THEN <<>> ELSE SubSeq(s, Max(dots), Len(s))

\* byte-wise lexical order of two names
RECURSIVE StrLess(_, _)
StrLess(a, b) ==
    IF b = <<>> THEN FALSE
    ELSE IF a = <<>> THEN TRUE
    ELSE IF a[1] # b[1] THEN Ord(a[1]) < Ord(b[1])
    ELSE StrLess(Tail(a), Tail(b))

DotMkv == <<".", "m", "k", "v">>
DotAvi == <<".", "a", "v", "i">>
DotMp4 == <<".", "m", "p", "4">>
DotM4v == <<".", "m", "4", "v">>
DotJpg == <<".", "j", "p", "g">>
DotJpeg == <<".", "j", "p", "e", "g">>
DotNfo == <<".", "n", "f", "o">>
DotPng == <<".", "p", "n", "g">>
PosterJpg == <<"-", "p", "o", "s", "t", "e", "r">> \o DotJpg
PosterJpeg == <<"-", "p", "o", "s", "t", "e", "r">> \o DotJpeg

----------------------------------------------------------------------------
(* Filter and classification *)

\* DefaultFilter: the filter main.go passes
SkipHidden == TRUE

SkipExtensions == {DotNfo, DotPng}

DefaultMaxChildrenShow == 1000

IsVideoFile(name) ==
    LET ext == ToLower(Ext(name))
    IN  ext = DotMkv \/ ext = DotAvi \/ ext = DotMp4 \/ ext = DotM4v

IsPosterFile(name) ==
    LET ext == ToLower(Ext(name))
    IN  IF ext # DotJpg /\ ext # DotJpeg THEN FALSE
        ELSE \/ HasSuffix(ToLower(name), PosterJpg)
             \/ HasSuffix(ToLower(name), PosterJpeg)

ShouldSkip(name, isDir) ==
    IF SkipHidden /\ HasPrefix(name, <<".">>) THEN TRUE
    ELSE IF ~isDir /\ ToLower(Ext(name)) \in SkipExtensions THEN TRUE
    ELSE FALSE

\* the key under which loadDirectory records a poster
PosterBase(name) == TrimSuffix(TrimSuffix(name, PosterJpg), PosterJpeg)

\* the key under which associatePosters looks a child up
BaseName(name) == TrimSuffix(name, Ext(name))

----------------------------------------------------------------------------
(* The file system: read-only, three directory trees.  dir = 0 marks a     *)
(* root.                                                                   *)

FsEntry(name, isDir, dir) == [name |-> name, isDir |-> isDir, dir |-> dir]

FS ==
    << FsEntry(<<"l", "i", "b">>, TRUE, 0),                               \* 1
       FsEntry(<<"s", "u", "b">>, TRUE, 1),                               \* 2
       FsEntry(<<"b", ".", "m", "k", "v">>, FALSE, 2),                    \* 3
       FsEntry(<<"a", ".", "m", "p", "4">>, FALSE, 1),                    \* 4
       FsEntry(<<"a">> \o PosterJpg, FALSE, 1),                           \* 5
       FsEntry(<<"S", "h", "o", "w">>, TRUE, 1),                          \* 6
       FsEntry(<<"S", "h", "o", "w">> \o PosterJpg, FALSE, 1),            \* 7
       FsEntry(<<"S", "h", "o", "w", ".", "m", "4", "v">>, FALSE, 6),     \* 8
       FsEntry(<<".", "g", "i", "t">>, TRUE, 1),                          \* 9
       FsEntry(<<"H", "E", "A", "D">>, FALSE, 9),                         \* 10
       FsEntry(<<"x", ".", "n", "f", "o">>, FALSE, 1),                    \* 11
       FsEntry(<<"M", ".", "m", "k", "v">>, FALSE, 1),                    \* 12
       FsEntry(<<"M", "-", "P", "O", "S", "T", "E", "R", ".", "J", "P", "G">>,
               FALSE, 1),                                                 \* 13
       FsEntry(<<"r">>, TRUE, 0),                                         \* 14
       FsEntry(<<"a", ".", "m", "p", "4">>, FALSE, 14),                   \* 15
       FsEntry(<<"a">> \o PosterJpg, FALSE, 14),                          \* 16
       FsEntry(<<"s", "u", "b">>, TRUE, 14),                              \* 17
       FsEntry(<<"b", ".", "m", "k", "v">>, FALSE, 17),                   \* 18
       FsEntry(<<"n">>, TRUE, 0),                                         \* 19
       FsEntry(<<"d">>, TRUE, 19),                                        \* 20
       FsEntry(<<"e">>, TRUE, 20),                                        \* 21
       FsEntry(<<"f", ".", "m", "k", "v">>, FALSE, 21),                   \* 22
       FsEntry(<<"g", ".", "a", "v", "i">>, FALSE, 20),                   \* 23
       FsEntry(<<"f">> \o PosterJpg, FALSE, 21),                          \* 24
       FsEntry(<<"f">> \o PosterJpeg, FALSE, 21),                         \* 25
       FsEntry(<<"e">> \o PosterJpg, TRUE, 20),                           \* 26
       FsEntry(<<"z", ".", "m", "k", "v">>, FALSE, 26) >>                 \* 27

Paths == 1..Len(FS)

\* a path that does not exist
Missing == 0

\* the root paths LoadAsync is called with
RootPaths == {p \in Paths : FS[p].dir = 0} \cup {Missing}

\* directories that may be unreadable (permission denied)
Flaky == {6}

EntriesOf(p) == {e \in Paths : FS[e].dir = p}

\* an order by name alone, files and directories mixed
EntryByName(a, b) == StrLess(FS[a].name, FS[b].name)

\* fastwalk.SortDirsFirst: directories before files, each group by name
EntryBefore(a, b) ==
    IF FS[a].isDir # FS[b].isDir THEN FS[a].isDir
    ELSE StrLess(FS[a].name, FS[b].name)

RECURSIVE SortDirsFirst(_)
SortDirsFirst(S) ==
    IF S = {} THEN <<>>
    ELSE LET first == CHOOSE a \in S : \A b \in S \ {a} : EntryBefore(a, b)
         IN  <<first>> \o SortDirsFirst(S \ {first})

----------------------------------------------------------------------------
(* State *)

VARIABLES
    unreadable,     \* the directories of Flaky the process may not read
    maxChildrenShow,    \* filter.MaxChildrenShow of the Tree's filter
    visited,        \* the entries a directly called scan was handed, in order
    pcMain,         \* the caller's thread: "start", "spawned", "ready", "failed"
    lastCall,       \* the last operation the caller's thread ran
    pcBg,           \* the warm-up goroutine's position in LoadAsync's closure
    stack,          \* the warm-up goroutine's loadDirectory frames, innermost last
    bgChildren,     \* the closure's local "children"
    panic,          \* "none", or the run-time panic that ended the process
    heap,           \* the Nodes allocated so far
    Root, CurrentDir, SelectedIdx, VisibleNodes,
    nodeMap, isLoading, filesFound, dirsFound,
    cache,          \* path -> cached children, or NoEntry
    cacheOrder,     \* the cached paths, the one that expires first at the head
    evicting,       \* whether cache.Start() is running
    expired,        \* how many entries have reached their TTL
    onProgressSet, onCompleteSet,   \* whether the callbacks passed are non-nil
    completeCalls, progressCalls, lastProgress,
    items,          \* MediaGrid.items: the Node of each MediaItem
    renderCtx,      \* MediaGrid.renderCtx: the number of the context in the field
    cancelled,      \* the contexts whose cancel function has been called
    visibleEnd,     \* MediaGrid.visibleEnd
    isRendering,    \* MediaGrid.isRendering
    visibleCards,   \* MediaGrid.visibleCards: the cards made since the last rebuild
    loops,          \* the progressiveRender goroutines, one per rebuild
    queue           \* the functions handed to fyne.Do and not yet run

treeVars ==
    <<heap, Root, CurrentDir, SelectedIdx, VisibleNodes, nodeMap, isLoading,
      filesFound, dirsFound, cache, cacheOrder, evicting>>

bgVars == <<pcBg, stack, bgChildren>>

callbackVars ==
    <<onProgressSet, onCompleteSet, completeCalls, progressCalls, lastProgress>>

\* what a run is given and never changes: the file system's permissions
\* and the filter
givenVars == <<unreadable, maxChildrenShow>>

renderVars ==
    <<renderCtx, cancelled, visibleEnd, isRendering, visibleCards, loops, queue>>

\* what no step of the Tree or of its goroutine touches
otherVars == <<givenVars, visited, renderVars>>

vars ==
    <<givenVars, visited, pcMain, lastCall, panic, expired, items,
      treeVars, bgVars, callbackVars, renderVars>>

\* cache.Get returning nil: no list of Nodes holds a negative index
NoEntry == <<-1>>

\* the nil *Node, and the empty PosterPath
Nil == 0

----------------------------------------------------------------------------
(* One fastwalk.Walk over a directory, as loadDirectory's callback sees it *)

\* the entries the callback is handed, in order; an unreadable directory
\* hands it only the error, which the callback answers with "continue"
WalkOrder(p) ==
    IF p \in unreadable THEN <<>> ELSE SortDirsFirst(EntriesOf(p))

IsPosterEntry(e) ==
    ~ShouldSkip(FS[e].name, FS[e].isDir) /\ IsPosterFile(FS[e].name)

IsChildEntry(e) ==
    ~ShouldSkip(FS[e].name, FS[e].isDir) /\ ~IsPosterFile(FS[e].name)

\* posterMap[key] after the walk (the last write wins), 0 if absent
PosterLookup(order, key) ==
    LET hits == {i \in 1..Len(order) :
                    IsPosterEntry(order[i]) /\ PosterBase(FS[order[i]].name) = key}
    IN  IF hits = {} THEN 0 ELSE order[Max(hits)]

\* associatePosters for one child: byBase is posterMap[baseName], byName
\* is posterMap[child.Name]
PickPoster(isDir, byBase, byName) ==
    IF byBase # 0 THEN byBase ELSE IF isDir /\ byName # 0 THEN byName ELSE 0

AssociatedPoster(order, e) ==
    PickPoster(FS[e].isDir, PosterLookup(order, BaseName(FS[e].name)),
               PosterLookup(order, FS[e].name))

\* a child made with its directory's poster when it has none of its own
NewNodeInheriting(e, parent, poster) ==
    [path |-> e, isDir |-> FS[e].isDir, children |-> <<>>, parent |-> parent,
     isVideo |-> ~FS[e].isDir /\ IsVideoFile(FS[e].name),
     poster |-> IF poster = Nil THEN heap[parent].poster ELSE poster]

NewNode(e, parent, poster) ==
    [path |-> e, isDir |-> FS[e].isDir, children |-> <<>>, parent |-> parent,
     isVideo |-> ~FS[e].isDir /\ IsVideoFile(FS[e].name), poster |-> poster]

\* a walk that counts every entry it is handed, kept or not
WalkedCountingAll(h, n, order, kept) ==
    [heap |-> h \o [i \in 1..Len(kept) |->
                       NewNode(kept[i], n, AssociatedPoster(order, kept[i]))],
     children |-> [i \in 1..Len(kept) |-> Len(h) + i],
     files |-> Cardinality({i \in 1..Len(order) : ~FS[order[i]].isDir}),
     dirs |-> Cardinality({i \in 1..Len(order) : FS[order[i]].isDir})]

\* a walk that gives each child the poster found by the time the callback
\* makes its Node, instead of associating once the walk is over
WalkedEarly(h, n, order, kept) ==
    [heap |-> h \o [i \in 1..Len(kept) |->
                       NewNode(kept[i], n,
                               AssociatedPoster(
                                   SubSeq(order, 1,
                                          CHOOSE j \in 1..Len(order) :
                                              order[j] = kept[i]),
                                   kept[i]))],
     children |-> [i \in 1..Len(kept) |-> Len(h) + i],
     files |-> Cardinality({i \in 1..Len(kept) : ~FS[kept[i]].isDir}),
     dirs |-> Cardinality({i \in 1..Len(kept) : FS[kept[i]].isDir})]

\* the part of loadDirectory between the cache lookup and the recursion:
\* the walk and associatePosters.  h is the heap, n the directory's Node.
Walked(h, n, order, kept) ==
    [heap |-> h \o [i \in 1..Len(kept) |->
                       NewNode(kept[i], n, AssociatedPoster(order, kept[i]))],
     children |-> [i \in 1..Len(kept) |-> Len(h) + i],
     files |-> Cardinality({i \in 1..Len(kept) : ~FS[kept[i]].isDir}),
     dirs |-> Cardinality({i \in 1..Len(kept) : FS[kept[i]].isDir})]

WalkIn(h, n, order) == Walked(h, n, order, SelectSeq(order, IsChildEntry))

Walk(h, n) == WalkIn(h, n, WalkOrder(h[n].path))

\* t.nodeMap[path] = child for every child of a walk
MapChildren(m, h, children) ==
    [p \in DOMAIN m \cup {h[children[i]].path : i \in 1..Len(children)} |->
        IF \E i \in 1..Len(children) : h[children[i]].path = p
        THEN children[CHOOSE i \in 1..Len(children) : h[children[i]].path = p]
        ELSE m[p]]

----------------------------------------------------------------------------
(* The TTL cache.  Every entry has the same TTL and Get renews it, so the  *)
(* entries expire in the order in which they were last set or read.        *)

Without(seq, p) == SelectSeq(seq, LAMBDA q : q # p)

\* what one loadDirectory call gives back and leaves behind
Loaded(h, children, m, files, dirs, c, order) ==
    [heap |-> h, children |-> children, nodeMap |-> m, files |-> files,
     dirs |-> dirs, cache |-> c, cacheOrder |-> order]

CacheHit(p) == cache[p] # NoEntry

\* cache.Get on a hit, cache.Set: the entry becomes the last to expire
Touched(order, p) == Without(order, p) \o <<p>>

----------------------------------------------------------------------------
(* Construction *)

\* a progressiveRender goroutine not started yet
NoLoop == [pc |-> "none", totalItems |-> 0, grid |-> 0, waitCtx |-> 0]

\* NewMediaGrid: context 0 in the field, nothing rendered
GridInit ==
    /\ renderCtx = 0
    /\ cancelled = {}
    /\ visibleEnd = 0
    /\ isRendering = FALSE
    /\ visibleCards = <<>>
    /\ loops = [l \in 1..MaxRefresh |-> NoLoop]
    /\ queue = <<>>

Init ==
    /\ unreadable \in SUBSET Flaky
    /\ maxChildrenShow = DefaultMaxChildrenShow
    /\ visited = <<>>
    /\ pcMain = "start"
    /\ lastCall = "none"
    /\ pcBg = "idle"
    /\ stack = <<>>
    /\ bgChildren = <<>>
    /\ panic = "none"
    /\ heap = <<>>
    /\ Root = Nil
    /\ CurrentDir = Nil
    /\ SelectedIdx = 0
    /\ VisibleNodes = <<>>
    /\ nodeMap = <<>>
    /\ isLoading = FALSE
    /\ filesFound = 0
    /\ dirsFound = 0
    /\ cache = [p \in Paths |-> NoEntry]
    /\ cacheOrder = <<>>
    /\ evicting = FALSE
    /\ expired = 0
    /\ onProgressSet = FALSE
    /\ onCompleteSet = FALSE
    /\ completeCalls = 0
    /\ progressCalls = 0
    /\ lastProgress = <<>>
    /\ items = <<>>
    /\ GridInit

Frame(n) == [node |-> n, phase |-> "enter", children |-> <<>>, idx |-> 0]

\* the two "reset selection" statements of UpdateVisibleNodes
ClampHigh(vis, sel) == IF sel >= Len(vis) THEN Len(vis) - 1 ELSE sel

ClampLow(vis, sel) == IF sel < 0 /\ Len(vis) > 0 THEN 0 ELSE sel

\* LoadAsync with the cache's eviction goroutine started ahead of the stat:
\* what the early return of the real one rules out
LoadAsyncEager(rootPath, onProgress, onComplete) ==
    /\ pcMain = "start"
    /\ lastCall' = "LoadAsync"
    /\ evicting' = TRUE
    /\ IF rootPath = Missing
       THEN /\ pcMain' = "failed"
            /\ UNCHANGED <<heap, Root, CurrentDir, SelectedIdx, nodeMap,
                           isLoading, onProgressSet, onCompleteSet, pcBg, stack>>
       ELSE /\ pcMain' = "spawned"
            /\ heap' = <<[path |-> rootPath, isDir |-> FS[rootPath].isDir,
                          children |-> <<>>, parent |-> Nil,
                          isVideo |-> FALSE, poster |-> Nil]>>
            /\ Root' = 1
            /\ CurrentDir' = 1
            /\ SelectedIdx' = 0
            /\ nodeMap' = (rootPath :> 1)
            /\ isLoading' = TRUE
            /\ onProgressSet' = onProgress
            /\ onCompleteSet' = onComplete
            /\ pcBg' = "scan"
            /\ stack' = <<Frame(1)>>
    /\ UNCHANGED <<VisibleNodes, filesFound, dirsFound, cache, cacheOrder,
                   bgChildren, completeCalls, progressCalls, lastProgress>>
    /\ UNCHANGED <<otherVars, panic, expired, items>>

\* LoadAsync up to and including the go statement
LoadAsync(rootPath, onProgress, onComplete) ==
    /\ pcMain = "start"
    /\ lastCall' = "LoadAsync"
    /\ IF rootPath = Missing
       THEN /\ pcMain' = "failed"
            /\ UNCHANGED <<treeVars, bgVars, callbackVars>>
       ELSE /\ pcMain' = "spawned"
            /\ heap' = <<[path |-> rootPath, isDir |-> FS[rootPath].isDir,
                          children |-> <<>>, parent |-> Nil,
                          isVideo |-> FALSE, poster |-> Nil]>>
            /\ Root' = 1
            /\ CurrentDir' = 1
            /\ SelectedIdx' = 0
            /\ nodeMap' = (rootPath :> 1)
            /\ isLoading' = TRUE
            /\ evicting' = TRUE
            /\ onProgressSet' = onProgress
            /\ onCompleteSet' = onComplete
            /\ pcBg' = "scan"
            /\ stack' = <<Frame(1)>>
            /\ UNCHANGED <<VisibleNodes, filesFound, dirsFound, cache, cacheOrder,
                           bgChildren, completeCalls, progressCalls, lastProgress>>
    /\ UNCHANGED <<otherVars, panic, expired, items>>

\* LoadAsync's own tree.UpdateVisibleNodes() and its return
LoadAsyncReturn ==
    /\ pcMain = "spawned"
    /\ panic = "none"
    /\ pcMain' = "ready"
    /\ VisibleNodes' = heap[CurrentDir].children
    /\ SelectedIdx' = ClampLow(heap[CurrentDir].children,
                               ClampHigh(heap[CurrentDir].children, SelectedIdx))
    /\ UNCHANGED <<otherVars, lastCall, panic, expired, items, heap, Root,
                   CurrentDir, nodeMap, isLoading, filesFound, dirsFound, cache,
                   cacheOrder, evicting, bgVars, callbackVars>>

----------------------------------------------------------------------------
(* The warm-up goroutine *)

Top == stack[Len(stack)]

\* what a return from the innermost loadDirectory does: the caller stores
\* the result in child.Children, or the closure takes it as "children"
ReturnedTo(rest, h, result) ==
    IF rest = <<>>
    THEN [stack |-> <<>>, heap |-> h, bgChildren |-> result, pc |-> "setroot"]
    ELSE [stack |-> [rest EXCEPT ![Len(rest)].idx = rest[Len(rest)].idx + 1],
          heap |-> [h EXCEPT ![rest[Len(rest)].children[rest[Len(rest)].idx]]
                                 .children = result],
          bgChildren |-> bgChildren, pc |-> "scan"]

Returned(h, result) == ReturnedTo(SubSeq(stack, 1, Len(stack) - 1), h, result)

\* the goroutine's state after a return
BgReturn(r) ==
    /\ stack' = r.stack
    /\ heap' = r.heap
    /\ bgChildren' = r.bgChildren
    /\ pcBg' = r.pc

\* a walk that attaches the children to the scanned Node at once, before
\* the recursion into them
BgWalkedAttaching(w) ==
    /\ heap' = [w.heap EXCEPT ![Top.node].children = w.children]
    /\ nodeMap' = MapChildren(nodeMap, w.heap, w.children)
    /\ filesFound' = filesFound + w.files
    /\ dirsFound' = dirsFound + w.dirs
    /\ stack' = [stack EXCEPT ![Len(stack)] =
                    [Top EXCEPT !.phase = "recurse",
                                !.children = w.children, !.idx = 1]]

\* the goroutine's state after the walk of a cache miss
BgWalked(w) ==
    /\ heap' = w.heap
    /\ nodeMap' = MapChildren(nodeMap, w.heap, w.children)
    /\ filesFound' = filesFound + w.files
    /\ dirsFound' = dirsFound + w.dirs
    /\ stack' = [stack EXCEPT ![Len(stack)] =
                    [Top EXCEPT !.phase = "recurse",
                                !.children = w.children, !.idx = 1]]

\* loadDirectory(node, true) from its entry to the end of associatePosters
BgLoadDirectory ==
    /\ pcBg = "scan" /\ panic = "none"
    /\ Top.phase = "enter"
    /\ IF ~heap[Top.node].isDir
       THEN /\ BgReturn(Returned(heap, <<>>))
            /\ UNCHANGED <<nodeMap, filesFound, dirsFound, cacheOrder>>
       ELSE IF CacheHit(heap[Top.node].path)
       THEN /\ BgReturn(Returned(heap, cache[heap[Top.node].path]))
            /\ cacheOrder' = Touched(cacheOrder, heap[Top.node].path)
            /\ UNCHANGED <<nodeMap, filesFound, dirsFound>>
       ELSE /\ BgWalked(Walk(heap, Top.node))
            /\ UNCHANGED <<bgChildren, pcBg, cacheOrder>>
    /\ UNCHANGED <<otherVars, pcMain, lastCall, panic, expired, items, Root,
                   CurrentDir, SelectedIdx, VisibleNodes, isLoading, cache,
                   evicting, callbackVars>>

\* a loop that recurses into the first directory child only
NextDirOnce(f) ==
    LET ds == {i \in f.idx..Len(f.children) : i = 1 /\ heap[f.children[i]].isDir}
    IN  IF ds = {} THEN 0 ELSE CHOOSE i \in ds : \A j \in ds : i <= j

\* the index of the next directory among the frame's children, 0 if none
NextDir(f) ==
    LET ds == {i \in f.idx..Len(f.children) : heap[f.children[i]].isDir}
    IN  IF ds = {} THEN 0 ELSE CHOOSE i \in ds : \A j \in ds : i <= j

\* the recursion loop reaches a directory child and calls loadDirectory on it
BgRecurse ==
    /\ pcBg = "scan" /\ panic = "none"
    /\ Top.phase = "recurse"
    /\ NextDir(Top) # 0
    /\ stack' = [stack EXCEPT ![Len(stack)].idx = NextDir(Top)]
                   \o <<Frame(Top.children[NextDir(Top)])>>
    /\ UNCHANGED <<otherVars, pcMain, lastCall, panic, expired, items, treeVars,
                   bgChildren, pcBg, callbackVars>>

\* the loop is over: cache.Set and return children
BgFinish ==
    /\ pcBg = "scan" /\ panic = "none"
    /\ Top.phase = "recurse"
    /\ NextDir(Top) = 0
    /\ cache' = [cache EXCEPT ![heap[Top.node].path] = Top.children]
    /\ cacheOrder' = Touched(cacheOrder, heap[Top.node].path)
    /\ BgReturn(Returned(heap, Top.children))
    /\ UNCHANGED <<otherVars, pcMain, lastCall, panic, expired, items, Root,
                   CurrentDir, SelectedIdx, VisibleNodes, nodeMap, isLoading,
                   filesFound, dirsFound, evicting, callbackVars>>

\* root.Children = children
BgSetRoot ==
    /\ pcBg = "setroot" /\ panic = "none"
    /\ heap' = [heap EXCEPT ![Root].children = bgChildren]
    /\ pcBg' = "setloading"
    /\ UNCHANGED <<otherVars, pcMain, lastCall, panic, expired, items, Root,
                   CurrentDir, SelectedIdx, VisibleNodes, nodeMap, isLoading,
                   filesFound, dirsFound, cache, cacheOrder, evicting, stack,
                   bgChildren, callbackVars>>

\* the goroutine going on to UpdateVisibleNodes with the flag left set
BgSetLoadingSkipped ==
    /\ pcBg = "setloading" /\ panic = "none"
    /\ pcBg' = "make"
    /\ UNCHANGED <<otherVars, pcMain, lastCall, panic, expired, items,
                   treeVars, stack, bgChildren, callbackVars>>

\* tree.isLoading = false
BgSetLoading ==
    /\ pcBg = "setloading" /\ panic = "none"
    /\ isLoading' = FALSE
    /\ pcBg' = "make"
    /\ UNCHANGED <<otherVars, pcMain, lastCall, panic, expired, items, heap, Root,
                   CurrentDir, SelectedIdx, VisibleNodes, nodeMap, filesFound,
                   dirsFound, cache, cacheOrder, evicting, stack, bgChildren,
                   callbackVars>>

\* UpdateVisibleNodes, statement by statement: t.VisibleNodes = make(...)
BgMake ==
    /\ pcBg = "make" /\ panic = "none"
    /\ VisibleNodes' = [i \in 1..Len(heap[CurrentDir].children) |-> Nil]
    /\ pcBg' = "copy"
    /\ UNCHANGED <<otherVars, pcMain, lastCall, panic, expired, items, heap, Root,
                   CurrentDir, SelectedIdx, nodeMap, isLoading, filesFound,
                   dirsFound, cache, cacheOrder, evicting, stack, bgChildren,
                   callbackVars>>

\* copy(t.VisibleNodes, t.CurrentDir.Children)
BgCopy ==
    /\ pcBg = "copy" /\ panic = "none"
    /\ VisibleNodes' =
          [i \in 1..Len(VisibleNodes) |->
              IF i <= Len(heap[CurrentDir].children)
              THEN heap[CurrentDir].children[i] ELSE VisibleNodes[i]]
    /\ pcBg' = "clampHigh"
    /\ UNCHANGED <<otherVars, pcMain, lastCall, panic, expired, items, heap, Root,
                   CurrentDir, SelectedIdx, nodeMap, isLoading, filesFound,
                   dirsFound, cache, cacheOrder, evicting, stack, bgChildren,
                   callbackVars>>

\* if t.SelectedIdx >= len(t.VisibleNodes) { ... }
BgClampHigh ==
    /\ pcBg = "clampHigh" /\ panic = "none"
    /\ SelectedIdx' = ClampHigh(VisibleNodes, SelectedIdx)
    /\ pcBg' = "clampLow"
    /\ UNCHANGED <<otherVars, pcMain, lastCall, panic, expired, items, heap, Root,
                   CurrentDir, VisibleNodes, nodeMap, isLoading, filesFound,
                   dirsFound, cache, cacheOrder, evicting, stack, bgChildren,
                   callbackVars>>

\* if t.SelectedIdx < 0 && len(t.VisibleNodes) > 0 { ... }
BgClampLow ==
    /\ pcBg = "clampLow" /\ panic = "none"
    /\ SelectedIdx' = ClampLow(VisibleNodes, SelectedIdx)
    /\ pcBg' = "complete"
    /\ UNCHANGED <<otherVars, pcMain, lastCall, panic, expired, items, heap, Root,
                   CurrentDir, VisibleNodes, nodeMap, isLoading, filesFound,
                   dirsFound, cache, cacheOrder, evicting, stack, bgChildren,
                   callbackVars>>

\* if onComplete != nil { onComplete() }
BgComplete ==
    /\ pcBg = "complete" /\ panic = "none"
    /\ completeCalls' = IF onCompleteSet THEN completeCalls + 1 ELSE completeCalls
    /\ pcBg' = "progress"
    /\ UNCHANGED <<otherVars, pcMain, lastCall, panic, expired, items, treeVars,
                   stack, bgChildren, onProgressSet, onCompleteSet, progressCalls,
                   lastProgress>>

\* if onProgress != nil { onProgress(filesFound, dirsFound) }
BgProgress ==
    /\ pcBg = "progress" /\ panic = "none"
    /\ progressCalls' = IF onProgressSet THEN progressCalls + 1 ELSE progressCalls
    /\ lastProgress' = IF onProgressSet THEN <<filesFound, dirsFound>>
                       ELSE lastProgress
    /\ pcBg' = "done"
    /\ UNCHANGED <<otherVars, pcMain, lastCall, panic, expired, items, treeVars,
                   stack, bgChildren, onProgressSet, onCompleteSet, completeCalls>>

BgNext ==
    \/ BgLoadDirectory \/ BgRecurse \/ BgFinish \/ BgSetRoot \/ BgSetLoading
    \/ BgMake \/ BgCopy \/ BgClampHigh \/ BgClampLow \/ BgComplete \/ BgProgress

----------------------------------------------------------------------------
(* The caller's thread: navigation *)

Ready == pcMain = "ready" /\ panic = "none"

\* a miss that walks the directory and then returns an empty list
LoadMissEmpty(p, w) ==
    Loaded(w.heap, <<>>, MapChildren(nodeMap, w.heap, w.children),
           w.files, w.dirs, [cache EXCEPT ![p] = <<>>], Touched(cacheOrder, p))

\* loadDirectory(node, false), run to its return
LoadMiss(p, w) ==
    Loaded(w.heap, w.children, MapChildren(nodeMap, w.heap, w.children),
           w.files, w.dirs, [cache EXCEPT ![p] = w.children],
           Touched(cacheOrder, p))

\* loadDirectory trusting the children a Node already has instead of going
\* through the cache
LoadDirectoryKept(n) ==
    IF ~heap[n].isDir
    THEN Loaded(heap, <<>>, nodeMap, 0, 0, cache, cacheOrder)
    ELSE IF heap[n].children # <<>>
    THEN Loaded(heap, heap[n].children, nodeMap, 0, 0, cache, cacheOrder)
    ELSE IF CacheHit(heap[n].path)
    THEN Loaded(heap, cache[heap[n].path], nodeMap, 0, 0, cache,
                Touched(cacheOrder, heap[n].path))
    ELSE LoadMiss(heap[n].path, Walk(heap, n))

LoadDirectory(n) ==
    IF ~heap[n].isDir
    THEN Loaded(heap, <<>>, nodeMap, 0, 0, cache, cacheOrder)
    ELSE IF CacheHit(heap[n].path)
    THEN Loaded(heap, cache[heap[n].path], nodeMap, 0, 0, cache,
                Touched(cacheOrder, heap[n].path))
    ELSE LoadMiss(heap[n].path, Walk(heap, n))

\* Enter once the selected Node is known to be a directory; r is what
\* loadDirectory(selected, false) gave
EnterDirectory(selected, r) ==
    /\ heap' = [r.heap EXCEPT ![selected].children = r.children]
    /\ nodeMap' = r.nodeMap
    /\ filesFound' = filesFound + r.files
    /\ dirsFound' = dirsFound + r.dirs
    /\ cache' = r.cache
    /\ cacheOrder' = r.cacheOrder
    /\ CurrentDir' = selected
    /\ VisibleNodes' = r.children
    /\ SelectedIdx' = ClampLow(r.children, ClampHigh(r.children, 0))

\* Enter on a file moving the selection back to the first Node
EnterFileReset ==
    /\ SelectedIdx' = 0
    /\ UNCHANGED <<panic, heap, Root, CurrentDir, VisibleNodes, nodeMap,
                   isLoading, filesFound, dirsFound, cache, cacheOrder, evicting>>

\* Enter returning because the selected Node is no directory
EnterFile == UNCHANGED <<panic, treeVars>>

\* lastCall names the return the call took
Enter ==
    /\ Ready
    /\ IF Len(VisibleNodes) = 0
       THEN /\ lastCall' = "Enter: nothing visible"
            /\ UNCHANGED <<panic, treeVars>>
       ELSE IF SelectedIdx < 0 \/ SelectedIdx >= Len(VisibleNodes)
       THEN /\ lastCall' = "Enter: panic"
            /\ panic' = "index out of range"
            /\ UNCHANGED treeVars
       ELSE IF VisibleNodes[SelectedIdx + 1] = Nil
       THEN /\ lastCall' = "Enter: panic"
            /\ panic' = "nil pointer dereference"
            /\ UNCHANGED treeVars
       ELSE IF ~heap[VisibleNodes[SelectedIdx + 1]].isDir
       THEN /\ lastCall' = "Enter: file"
            /\ EnterFile
       ELSE /\ lastCall' = "Enter: directory"
            /\ EnterDirectory(VisibleNodes[SelectedIdx + 1],
                              LoadDirectory(VisibleNodes[SelectedIdx + 1]))
            /\ UNCHANGED <<panic, Root, isLoading, evicting>>
    /\ UNCHANGED <<otherVars, pcMain, expired, items, bgVars, callbackVars>>

\* going up to the top of the tree instead of one level
ParentOrRoot(n) == IF heap[n].parent = Nil THEN Nil ELSE Root

\* t.CurrentDir.Parent
ParentOf(n) == heap[n].parent

GoUp ==
    /\ Ready
    /\ IF ParentOf(CurrentDir) # Nil
       THEN /\ lastCall' = "GoUp: to parent"
            /\ CurrentDir' = ParentOf(CurrentDir)
            /\ VisibleNodes' = heap[ParentOf(CurrentDir)].children
            /\ SelectedIdx' = ClampLow(heap[ParentOf(CurrentDir)].children,
                                 ClampHigh(heap[ParentOf(CurrentDir)].children, 0))
       ELSE /\ lastCall' = "GoUp: no parent"
            /\ UNCHANGED <<CurrentDir, VisibleNodes, SelectedIdx>>
    /\ UNCHANGED <<otherVars, pcMain, panic, expired, items, heap, Root, nodeMap,
                   isLoading, filesFound, dirsFound, cache, cacheOrder, evicting,
                   bgVars, callbackVars>>

\* what a Navigate call leaves alone
NavigateFrame ==
    UNCHANGED <<otherVars, pcMain, panic, expired, items, heap, Root, CurrentDir,
                VisibleNodes, nodeMap, isLoading, filesFound, dirsFound, cache,
                cacheOrder, evicting, bgVars, callbackVars>>

NavigateUp(cols) ==
    /\ Ready
    /\ lastCall' = "NavigateUp"
    /\ SelectedIdx' = IF SelectedIdx >= cols THEN SelectedIdx - cols ELSE SelectedIdx
    /\ NavigateFrame

\* NavigateDown with the bound off by one
NavigateDownPast(cols) ==
    /\ Ready
    /\ lastCall' = "NavigateDown"
    /\ SelectedIdx' = IF SelectedIdx + cols <= Len(VisibleNodes)
                      THEN SelectedIdx + cols ELSE SelectedIdx
    /\ NavigateFrame

NavigateDown(cols) ==
    /\ Ready
    /\ lastCall' = "NavigateDown"
    /\ SelectedIdx' = IF SelectedIdx + cols < Len(VisibleNodes)
                      THEN SelectedIdx + cols ELSE SelectedIdx
    /\ NavigateFrame

NavigateLeft ==
    /\ Ready
    /\ lastCall' = "NavigateLeft"
    /\ SelectedIdx' = IF SelectedIdx > 0 THEN SelectedIdx - 1 ELSE SelectedIdx
    /\ NavigateFrame

NavigateRight ==
    /\ Ready
    /\ lastCall' = "NavigateRight"
    /\ SelectedIdx' = IF SelectedIdx < Len(VisibleNodes) - 1
                      THEN SelectedIdx + 1 ELSE SelectedIdx
    /\ NavigateFrame

----------------------------------------------------------------------------
(* The consumer's read, and the cache's clock *)

\* MediaGrid.Refresh as far as it reads the tree: buildMediaItems wraps
\* every visible Node and reads its fields
Refresh ==
    /\ Ready
    /\ lastCall' = "Refresh"
    /\ IF isLoading /\ Len(VisibleNodes) = 0
       THEN UNCHANGED <<items, panic>>
       ELSE /\ items' = VisibleNodes
            /\ panic' = IF \E i \in 1..Len(VisibleNodes) : VisibleNodes[i] = Nil
                        THEN "nil pointer dereference" ELSE panic
    /\ UNCHANGED <<otherVars, pcMain, expired, treeVars, bgVars, callbackVars>>

\* the entry that was set or read longest ago reaches its TTL
CacheExpire ==
    /\ panic = "none"
    /\ cacheOrder # <<>>
    /\ expired < MaxExpire
    /\ cache' = [cache EXCEPT ![Head(cacheOrder)] = NoEntry]
    /\ cacheOrder' = Tail(cacheOrder)
    /\ expired' = expired + 1
    /\ UNCHANGED <<otherVars, pcMain, lastCall, panic, items, heap, Root,
                   CurrentDir, SelectedIdx, VisibleNodes, nodeMap, isLoading,
                   filesFound, dirsFound, evicting, bgVars, callbackVars>>

----------------------------------------------------------------------------
(* The specification *)

Next ==
    \/ \E rootPath \in RootPaths, onProgress \in BOOLEAN, onComplete \in BOOLEAN :
          LoadAsync(rootPath, onProgress, onComplete)
    \/ LoadAsyncReturn
    \/ BgNext
    \/ Enter
    \/ GoUp
    \/ \E cols \in 1..MaxCols : NavigateUp(cols)
    \/ \E cols \in 1..MaxCols : NavigateDown(cols)
    \/ NavigateLeft
    \/ NavigateRight
    \/ Refresh
    \/ CacheExpire

Spec == Init /\ [][Next]_vars

\* the Go scheduler runs a runnable goroutine eventually
FairSpec == Spec /\ WF_vars(BgNext)

\* the goroutine has a statement left to run: ENABLED <<BgNext>>_vars, read
\* off the guards of its steps
BgRunnable == panic = "none" /\ pcBg \notin {"idle", "done"}

\* Spec with weak fairness of the goroutine, WF_vars(BgNext) written out
WarmUpSpec == Spec /\ (<>[]BgRunnable => []<><<BgNext>>_vars)

----------------------------------------------------------------------------
(* One directory scanned on its own: loadDirectory(node, false) called on  *)
(* the root Node of a freshly built Tree, for every directory, for the     *)
(* filters that differ in MaxChildrenShow, and for the orders in which the *)
(* walk may hand the entries to the callback.                              *)

ScanDirs == {p \in Paths : FS[p].isDir}

RECURSIVE Perms(_)
Perms(S) ==
    IF S = {} THEN {<<>>}
    ELSE UNION {{<<x>> \o q : q \in Perms(S \ {x})} : x \in S}

Reverse(q) == [i \in 1..Len(q) |-> q[Len(q) + 1 - i]]

VisitOrders(p) ==
    IF p \in unreadable THEN {<<>>}
    ELSE IF Cardinality(EntriesOf(p)) <= MaxPermuted THEN Perms(EntriesOf(p))
    ELSE {SortDirsFirst(EntriesOf(p)), Reverse(SortDirsFirst(EntriesOf(p)))}

\* the Tree as LoadAsync builds it (tree.go:108-135), no goroutine started
ScanInit ==
    /\ unreadable \in SUBSET Flaky
    /\ maxChildrenShow \in (1..MaxCap) \cup {DefaultMaxChildrenShow}
    /\ visited = <<>>
    /\ pcMain = "scan"
    /\ lastCall = "none"
    /\ pcBg = "idle"
    /\ stack = <<>>
    /\ bgChildren = <<>>
    /\ panic = "none"
    /\ \E p \in ScanDirs :
          /\ heap = <<[path |-> p, isDir |-> TRUE, children |-> <<>>,
                       parent |-> Nil, isVideo |-> FALSE, poster |-> Nil]>>
          /\ nodeMap = (p :> 1)
    /\ Root = 1
    /\ CurrentDir = 1
    /\ SelectedIdx = 0
    /\ VisibleNodes = <<>>
    /\ isLoading = TRUE
    /\ filesFound = 0
    /\ dirsFound = 0
    /\ cache = [p \in Paths |-> NoEntry]
    /\ cacheOrder = <<>>
    /\ evicting = TRUE
    /\ expired = 0
    /\ onProgressSet = FALSE
    /\ onCompleteSet = FALSE
    /\ completeCalls = 0
    /\ progressCalls = 0
    /\ lastProgress = <<>>
    /\ items = <<>>
    /\ GridInit

\* loadDirectory(node, false) with the walk handing over the entries in the
\* given order
LoadDirectoryIn(n, order) ==
    IF ~heap[n].isDir
    THEN Loaded(heap, <<>>, nodeMap, 0, 0, cache, cacheOrder)
    ELSE IF CacheHit(heap[n].path)
    THEN Loaded(heap, cache[heap[n].path], nodeMap, 0, 0, cache,
                Touched(cacheOrder, heap[n].path))
    ELSE LoadMiss(heap[n].path, WalkIn(heap, n, order))

\* the call's effects; the list it returns is kept in bgChildren
ScanDone(r) ==
    /\ heap' = r.heap
    /\ nodeMap' = r.nodeMap
    /\ filesFound' = filesFound + r.files
    /\ dirsFound' = dirsFound + r.dirs
    /\ cache' = r.cache
    /\ cacheOrder' = r.cacheOrder
    /\ bgChildren' = r.children

\* the first call, and a second one on the same Node
ScanLoad(order) ==
    /\ pcMain \in {"scan", "scanned"}
    /\ panic = "none"
    /\ pcMain' = IF pcMain = "scan" THEN "scanned" ELSE "rescanned"
    /\ lastCall' = IF CacheHit(heap[Root].path) THEN "loadDirectory: cached"
                   ELSE "loadDirectory: walked"
    /\ visited' = IF CacheHit(heap[Root].path) THEN visited ELSE order
    /\ ScanDone(LoadDirectoryIn(Root, order))
    /\ UNCHANGED <<givenVars, panic, expired, items, Root, CurrentDir,
                   SelectedIdx, VisibleNodes, isLoading, evicting, pcBg, stack,
                   callbackVars, renderVars>>

ScanNext ==
    \/ \E order \in VisitOrders(heap[Root].path) : ScanLoad(order)
    \/ CacheExpire

ScanSpec == ScanInit /\ [][ScanNext]_vars

----------------------------------------------------------------------------
(* The grid's rendering on its own: MediaGrid.Refresh on the UI thread,    *)
(* the progressiveRender goroutine each rebuild starts, and the functions  *)
(* those hand to fyne.Do, which the UI thread runs later.  The Tree is     *)
(* what each Refresh reads of it: whether it is loading with nothing       *)
(* visible, and how many Nodes are visible.  A context is a number, the    *)
(* grid container and the goroutine of the n-th rebuild have number n.     *)

treeSide == <<givenVars, visited, expired, treeVars, bgVars, callbackVars>>

Card(item, grid, loop) == [item |-> item, grid |-> grid, by |-> loop]

\* the cards of items first+1 .. last of the list built by rebuild gen
Cards(gen, first, last, grid, loop) ==
    [i \in 1..(last - first) |-> Card(<<gen, first + i>>, grid, loop)]

RenderInit ==
    /\ unreadable = {}
    /\ maxChildrenShow = DefaultMaxChildrenShow
    /\ visited = <<>>
    /\ pcMain = "grid"
    /\ lastCall = "NewMediaGrid"
    /\ pcBg = "idle"
    /\ stack = <<>>
    /\ bgChildren = <<>>
    /\ panic = "none"
    /\ heap = <<>>
    /\ Root = Nil
    /\ CurrentDir = Nil
    /\ SelectedIdx = 0
    /\ VisibleNodes = <<>>
    /\ nodeMap = <<>>
    /\ isLoading \in BOOLEAN
    /\ filesFound = 0
    /\ dirsFound = 0
    /\ cache = [p \in Paths |-> NoEntry]
    /\ cacheOrder = <<>>
    /\ evicting = TRUE
    /\ expired = 0
    /\ onProgressSet = FALSE
    /\ onCompleteSet = FALSE
    /\ completeCalls = 0
    /\ progressCalls = 0
    /\ lastProgress = <<>>
    /\ items = <<>>
    /\ GridInit

\* Refresh up to g.renderCancel(): the early return while the tree is
\* loading with nothing visible, or the cancellation of the context in the
\* field
RefreshCancel(nothingVisible) ==
    /\ pcMain = "grid" /\ panic = "none"
    /\ renderCtx < MaxRefresh
    /\ IF isLoading /\ nothingVisible
       THEN /\ lastCall' = "Refresh: loading"
            /\ UNCHANGED <<pcMain, cancelled>>
       ELSE /\ lastCall' = "Refresh"
            /\ pcMain' = "refreshing"
            /\ cancelled' = cancelled \cup {renderCtx}
    /\ UNCHANGED <<treeSide, panic, items, renderCtx, visibleEnd, isRendering,
                   visibleCards, loops, queue>>

\* the rest of Refresh: the new context, buildMediaItems over n visible
\* Nodes, renderVisibleBatch, and the go statement
RefreshBuild(n) ==
    /\ pcMain = "refreshing" /\ panic = "none"
    /\ pcMain' = "grid"
    /\ renderCtx' = renderCtx + 1
    /\ items' = [i \in 1..n |-> i]
    /\ visibleEnd' = Min2(n, BatchSize)
    /\ visibleCards' =
          Cards(renderCtx + 1, 0, Min2(n, BatchSize), renderCtx + 1, 0)
    /\ loops' = [loops EXCEPT ![renderCtx + 1] =
                    [pc |-> "start", totalItems |-> 0, grid |-> 0, waitCtx |-> 0]]
    /\ UNCHANGED <<treeSide, lastCall, panic, cancelled, isRendering, queue>>

LoopFrame ==
    UNCHANGED <<treeSide, pcMain, lastCall, panic, items, renderCtx, cancelled,
                visibleCards>>

\* the deferred function: g.isRendering = false, and the goroutine is over
Exited(l) ==
    /\ isRendering' = FALSE
    /\ loops' = [loops EXCEPT ![l].pc = "done"]

\* progressiveRender's guard: a goroutine that finds isRendering set
\* returns at once, before the defer statement
RenderStart(l) ==
    /\ loops[l].pc = "start" /\ panic = "none"
    /\ IF isRendering
       THEN /\ loops' = [loops EXCEPT ![l].pc = "skipped"]
            /\ UNCHANGED isRendering
       ELSE /\ loops' = [loops EXCEPT ![l].pc = "total"]
            /\ isRendering' = TRUE
    /\ UNCHANGED <<visibleEnd, queue>>
    /\ LoopFrame

\* totalItems := len(g.items), the first test of g.visibleEnd, and the
\* grid container found in g.container
RenderTotal(l) ==
    /\ loops[l].pc = "total" /\ panic = "none"
    /\ IF visibleEnd >= Len(items)
       THEN Exited(l)
       ELSE /\ loops' = [loops EXCEPT ![l].pc = "cond",
                                      ![l].totalItems = Len(items),
                                      ![l].grid = renderCtx]
            /\ UNCHANGED isRendering
    /\ UNCHANGED <<visibleEnd, queue>>
    /\ LoopFrame

\* for g.visibleEnd < totalItems
RenderCond(l) ==
    /\ loops[l].pc = "cond" /\ panic = "none"
    /\ IF visibleEnd < loops[l].totalItems
       THEN /\ loops' = [loops EXCEPT ![l].pc = "check"]
            /\ UNCHANGED isRendering
       ELSE Exited(l)
    /\ UNCHANGED <<visibleEnd, queue>>
    /\ LoopFrame

\* select { case <-g.renderCtx.Done(): return; default: }: the context is
\* the one in the field when the statement runs
RenderCheck(l) ==
    /\ loops[l].pc = "check" /\ panic = "none"
    /\ IF renderCtx \in cancelled
       THEN Exited(l)
       ELSE /\ loops' = [loops EXCEPT ![l].pc = "batch"]
            /\ UNCHANGED isRendering
    /\ UNCHANGED <<visibleEnd, queue>>
    /\ LoopFrame

\* the next batch: g.visibleEnd moved on and the batch handed to fyne.Do
RenderBatch(l) ==
    /\ loops[l].pc = "batch" /\ panic = "none"
    /\ visibleEnd' = Min2(visibleEnd + BatchSize, loops[l].totalItems)
    /\ queue' = Append(queue, [by |-> l, grid |-> loops[l].grid,
                               batchStart |-> visibleEnd,
                               batchEnd |-> Min2(visibleEnd + BatchSize,
                                                 loops[l].totalItems)])
    /\ loops' = [loops EXCEPT ![l].pc =
                    IF Min2(visibleEnd + BatchSize, loops[l].totalItems)
                          < loops[l].totalItems
                    THEN "sleep" ELSE "cond"]
    /\ UNCHANGED isRendering
    /\ LoopFrame

\* the second select is entered: its case waits on the channel of the
\* context in the field at that moment
RenderSleep(l) ==
    /\ loops[l].pc = "sleep" /\ panic = "none"
    /\ loops' = [loops EXCEPT ![l].pc = "wait", ![l].waitCtx = renderCtx]
    /\ UNCHANGED <<visibleEnd, isRendering, queue>>
    /\ LoopFrame

\* the second select fires: timer.C, or Done() of the context waited on
RenderWake(l) ==
    /\ loops[l].pc = "wait" /\ panic = "none"
    /\ \/ /\ loops' = [loops EXCEPT ![l].pc = "cond"]
          /\ UNCHANGED isRendering
       \/ /\ loops[l].waitCtx \in cancelled
          /\ Exited(l)
    /\ UNCHANGED <<visibleEnd, queue>>
    /\ LoopFrame

\* the UI thread runs the function at the head of fyne.Do's queue: a card
\* for each g.items[i] of the batch, added to the grid container the
\* goroutine found and appended to g.visibleCards
RunBatch ==
    /\ pcMain = "grid" /\ panic = "none"
    /\ queue # <<>>
    /\ queue' = Tail(queue)
    /\ lastCall' = "fyne.Do"
    /\ IF Head(queue).batchEnd > Len(items)
          /\ Head(queue).batchStart < Head(queue).batchEnd
       THEN /\ panic' = "index out of range"
            /\ visibleCards' = visibleCards \o
                  Cards(renderCtx, Head(queue).batchStart,
                        Max2(Len(items), Head(queue).batchStart),
                        Head(queue).grid, Head(queue).by)
       ELSE /\ UNCHANGED panic
            /\ visibleCards' = visibleCards \o
                  Cards(renderCtx, Head(queue).batchStart,
                        Max2(Head(queue).batchEnd, Head(queue).batchStart),
                        Head(queue).grid, Head(queue).by)
    /\ UNCHANGED <<treeSide, pcMain, items, renderCtx, cancelled, visibleEnd,
                   isRendering, loops>>

LoopNext(l) ==
    \/ RenderStart(l) \/ RenderTotal(l) \/ RenderCond(l) \/ RenderCheck(l)
    \/ RenderBatch(l) \/ RenderSleep(l) \/ RenderWake(l)

RenderNext ==
    \/ \E nothingVisible \in BOOLEAN : RefreshCancel(nothingVisible)
    \/ \E n \in 0..MaxItems : RefreshBuild(n)
    \/ \E l \in 1..MaxRefresh : LoopNext(l)
    \/ RunBatch

RenderSpec == RenderInit /\ [][RenderNext]_vars

----------------------------------------------------------------------------
(* What the claims speak of *)

\* the tree has been handed to the caller and the process is alive
Handed == pcMain = "ready" /\ panic = "none"

PathsOf(h, children) == [i \in 1..Len(children) |-> h[children[i]].path]

\* the listing of directory p: its entries that are neither filtered out
\* nor posters, directories first and by name; none if p cannot be read
Listing(p) == SelectSeq(WalkOrder(p), IsChildEntry)

\* the Node Enter would act on
HasSelected ==
    /\ VisibleNodes # <<>>
    /\ SelectedIdx >= 0 /\ SelectedIdx < Len(VisibleNodes)
    /\ VisibleNodes[SelectedIdx + 1] # Nil

Selected == VisibleNodes[SelectedIdx + 1]

----------------------------------------------------------------------------
(* C1: whenever the caller holds the tree, the selection is a valid index  *)
(* of a non-empty VisibleNodes, and -1 when VisibleNodes is empty, in      *)
(* every interleaving of the warm-up goroutine with the navigation calls.  *)
(* The code breaks it: the goroutine's UpdateVisibleNodes publishes the    *)
(* new VisibleNodes before it repairs SelectedIdx.                         *)
C1_SelectionInRange ==
    Handed =>
        /\ VisibleNodes # <<>> =>
              SelectedIdx >= 0 /\ SelectedIdx < Len(VisibleNodes)
        /\ VisibleNodes = <<>> => SelectedIdx = -1

(* C2: VisibleNodes is at every moment empty or the complete child list of *)
(* CurrentDir, and no listing the consumer takes holds an unset entry.     *)
(* The code breaks it: make() publishes a list of nil entries that copy()  *)
(* fills afterwards.                                                       *)
C2_CompleteListing ==
    Handed =>
        /\ VisibleNodes = <<>> \/ VisibleNodes = heap[CurrentDir].children
        /\ \A i \in 1..Len(items) : items[i] # Nil


----------------------------------------------------------------------------
(* C3: a non-nil onComplete is invoked exactly once.  It has not been    *)
(* invoked before the goroutine reaches the call and has been invoked once *)
(* from then on, whatever the caller does afterwards; when the goroutine   *)
(* is about to invoke it the loading flag is false and Root's children are *)
(* the complete list the recursive scan returned, each directory among     *)
(* them with its own listing; and the process never ends without having   *)
(* invoked it.  The code breaks the last part: a call that meets the       *)
(* half-made VisibleNodes of C1 and C2 panics, and the process ends before *)
(* the goroutine reaches onComplete.                                       *)
RootPopulated ==
    /\ heap[Root].children = bgChildren
    /\ PathsOf(heap, heap[Root].children) = Listing(heap[Root].path)
    /\ \A i \in 1..Len(heap[Root].children) :
          /\ heap[heap[Root].children[i]].parent = Root
          /\ heap[heap[Root].children[i]].isDir =>
                PathsOf(heap, heap[heap[Root].children[i]].children)
                    = Listing(heap[heap[Root].children[i]].path)

C3_OnCompleteOnce ==
    onCompleteSet =>
        /\ completeCalls = IF pcBg \in {"progress", "done"} THEN 1 ELSE 0
        /\ pcBg = "complete" => ~isLoading /\ RootPopulated
        /\ completeCalls = 1 \/ panic = "none"

----------------------------------------------------------------------------
(* C4: once the warm-up goroutine has finished, a non-nil onProgress has   *)
(* been invoked, and the counts it was last given are those of the         *)
(* warm-up: the files and the directories below the root.  The code breaks *)
(* it: the call reads the counters after onComplete, and an Enter that     *)
(* re-scans a directory in between has counted that directory's entries a  *)
(* second time.                                                            *)
RECURSIVE SumSeq(_)
SumSeq(q) == IF q = <<>> THEN 0 ELSE Head(q) + SumSeq(Tail(q))

\* the entries of the tree below p that are directories (dirs = TRUE) or
\* files (dirs = FALSE)
RECURSIVE CountBelow(_, _)
CountBelow(p, dirs) ==
    Cardinality({i \in 1..Len(Listing(p)) : FS[Listing(p)[i]].isDir = dirs})
    + SumSeq([i \in 1..Len(Listing(p)) |->
                 IF FS[Listing(p)[i]].isDir
                 THEN CountBelow(Listing(p)[i], dirs) ELSE 0])

C4_ProgressFinalCounts ==
    (onProgressSet /\ pcBg = "done") =>
        /\ progressCalls >= 1
        /\ lastProgress = <<CountBelow(heap[Root].path, FALSE),
                            CountBelow(heap[Root].path, TRUE)>>

----------------------------------------------------------------------------
(* C5: when the stat of rootPath fails, LoadAsync returns its error and    *)
(* nothing else has happened or happens: there is no Tree, the cache's     *)
(* eviction goroutine and the warm-up goroutine were never started, and    *)
(* no callback is invoked.                                                 *)
C5_RootNotFound ==
    pcMain = "failed" =>
        /\ Root = Nil /\ CurrentDir = Nil /\ heap = <<>>
        /\ ~evicting /\ cacheOrder = <<>>
        /\ pcBg = "idle" /\ stack = <<>>
        /\ ~isLoading /\ filesFound = 0 /\ dirsFound = 0
        /\ completeCalls = 0 /\ progressCalls = 0

C5_Witness == pcMain = "failed" /\ lastCall = "LoadAsync"

----------------------------------------------------------------------------
(* C6: an error of the operating system while a directory is scanned is    *)
(* absorbed.  A Node whose directory cannot be read has no children; the   *)
(* warm-up still scans its siblings, so that once Root's children are set  *)
(* they are Root's complete listing and every directory among them has its *)
(* own; an Enter on such a directory returns normally, with that directory *)
(* current and nothing visible; and the process never ends before the      *)
(* warm-up has invoked onComplete.  The code breaks the last part, by the  *)
(* panic of C1 and C2.                                                     *)
UnreadableInTree == \E n \in DOMAIN heap : heap[n].path \in unreadable

C6_ScanErrorsAbsorbed ==
    /\ [](\A n \in DOMAIN heap :
             heap[n].path \in unreadable => heap[n].children = <<>>)
    /\ [](pcBg \notin {"idle", "scan", "setroot"} => RootPopulated)
    /\ [][(Enter /\ HasSelected /\ heap[Selected].path \in unreadable) =>
             /\ lastCall' = "Enter: directory"
             /\ panic' = "none"
             /\ CurrentDir' = Selected
             /\ VisibleNodes' = <<>>]_vars
    /\ []((UnreadableInTree /\ onCompleteSet) =>
             completeCalls = 1 \/ panic = "none")

----------------------------------------------------------------------------
(* C7: Enter on a selected directory D goes through loadDirectory's cache  *)
(* path even when the warm-up has populated D: the children are the        *)
(* cache's entry for D when there is one and the Nodes of a fresh          *)
(* one-level walk otherwise, and the entry for D is then those children.   *)
(* They replace D's children and no other Node changes; their paths are    *)
(* D's listing in order; D is the current directory, VisibleNodes is D's   *)
(* new child list, and the selection is 0, or -1 when D has no children.   *)
C7_EnterDirectory ==
    [][(Enter /\ HasSelected /\ heap[Selected].isDir) =>
          /\ lastCall' = "Enter: directory"
          /\ panic' = "none"
          /\ CurrentDir' = Selected
          /\ VisibleNodes' = heap'[Selected].children
          /\ PathsOf(heap', VisibleNodes') = Listing(heap[Selected].path)
          /\ SelectedIdx' = IF VisibleNodes' = <<>> THEN -1 ELSE 0
          /\ VisibleNodes' =
                IF cache[heap[Selected].path] # NoEntry
                THEN cache[heap[Selected].path]
                ELSE [i \in 1..Len(Listing(heap[Selected].path)) |->
                         Len(heap) + i]
          /\ cache'[heap[Selected].path] = VisibleNodes'
          /\ cacheOrder'[Len(cacheOrder')] = heap[Selected].path
          /\ \A n \in DOMAIN heap :
                IF n = Selected
                THEN heap'[n] = [heap[n] EXCEPT !.children = VisibleNodes']
                ELSE heap'[n] = heap[n]
          /\ \A n \in DOMAIN heap' \ DOMAIN heap :
                heap'[n].parent = Selected /\ heap'[n].children = <<>>]_vars

\* the caller has entered a directory whose cache entry had expired: the
\* visible Nodes are new ones, made for paths the warm-up had Nodes for
C7_Witness ==
    /\ lastCall = "Enter: directory"
    /\ panic = "none"
    /\ pcBg = "done"
    /\ CurrentDir # Root
    /\ VisibleNodes # <<>>
    /\ VisibleNodes = heap[CurrentDir].children
    /\ \E n \in DOMAIN heap :
          /\ n < VisibleNodes[1]
          /\ heap[n].path = heap[VisibleNodes[1]].path

----------------------------------------------------------------------------
(* C8: Enter with nothing visible, or with a selected Node that is not a   *)
(* directory, changes nothing: not the current directory, the selection or *)
(* the visible Nodes, no Node's children, not the cache, not the counters. *)
C8_EnterNoOp ==
    [][(Enter /\ (VisibleNodes = <<>>
                     \/ (HasSelected /\ ~heap[Selected].isDir))) =>
          UNCHANGED <<panic, heap, Root, CurrentDir, SelectedIdx, VisibleNodes,
                      nodeMap, isLoading, filesFound, dirsFound, cache,
                      cacheOrder, evicting>>]_vars

\* the caller has called Enter on a file that is not the first Node
C8_Witness ==
    /\ lastCall = "Enter: file"
    /\ panic = "none"
    /\ SelectedIdx > 0
    /\ ~heap[VisibleNodes[SelectedIdx + 1]].isDir

----------------------------------------------------------------------------
(* C9: GoUp at Root changes nothing.  Anywhere else it makes the parent of *)
(* the current directory current, sets the selection to 0 and makes the    *)
(* parent's children visible; it scans nothing and leaves every Node, the  *)
(* cache and the counters as they were.                                    *)
C9_GoUp ==
    [][GoUp =>
          IF CurrentDir = Root
          THEN UNCHANGED <<panic, treeVars>>
          ELSE /\ CurrentDir' = heap[CurrentDir].parent
               /\ SelectedIdx' = 0
               /\ VisibleNodes' = heap[heap[CurrentDir].parent].children
               /\ UNCHANGED <<panic, heap, Root, nodeMap, isLoading, filesFound,
                              dirsFound, cache, cacheOrder, evicting>>]_vars

\* the caller has gone up from a directory two levels below Root
C9_Witness ==
    /\ lastCall = "GoUp: to parent"
    /\ panic = "none"
    /\ CurrentDir # Root
    /\ heap[CurrentDir].parent = Root
    /\ SelectedIdx = 0
    /\ VisibleNodes = heap[CurrentDir].children

----------------------------------------------------------------------------
(* C10: the four Navigate calls are cursor arithmetic that never wraps.    *)
(* With n visible Nodes, NavigateUp(c) subtracts c when SelectedIdx >= c,  *)
(* NavigateDown(c) adds c when the sum is at most n-1, NavigateRight adds  *)
(* 1 unless SelectedIdx = n-1, and each is otherwise a no-op.  NavigateLeft*)
(* is a no-op where leftStays says so and subtracts 1 elsewhere.  None of  *)
(* them changes the current directory, the visible Nodes, any Node, the    *)
(* cache or the counters.                                                  *)
NavigateArithmetic(leftStays) ==
    /\ \A c \in 1..MaxCols :
          NavigateUp(c) =>
             SelectedIdx' = IF SelectedIdx >= c THEN SelectedIdx - c
                            ELSE SelectedIdx
    /\ \A c \in 1..MaxCols :
          NavigateDown(c) =>
             SelectedIdx' = IF SelectedIdx + c <= Len(VisibleNodes) - 1
                            THEN SelectedIdx + c ELSE SelectedIdx
    /\ NavigateLeft =>
          SelectedIdx' = IF leftStays THEN SelectedIdx ELSE SelectedIdx - 1
    /\ NavigateRight =>
          SelectedIdx' = IF SelectedIdx = Len(VisibleNodes) - 1
                         THEN SelectedIdx ELSE SelectedIdx + 1
    /\ ((\E c \in 1..MaxCols : NavigateUp(c) \/ NavigateDown(c))
           \/ NavigateLeft \/ NavigateRight) =>
          UNCHANGED <<panic, heap, Root, CurrentDir, VisibleNodes, nodeMap,
                      isLoading, filesFound, dirsFound, cache, cacheOrder,
                      evicting>>

(* C10 as the specification words it: NavigateLeft is a no-op at index 0   *)
(* and decrements at every other index.                                    *)
C10_Original == [][NavigateArithmetic(SelectedIdx = 0)]_vars

(* C10 as the code has it: NavigateLeft is a no-op at index 0 and when     *)
(* nothing is selected (SelectedIdx = -1), and decrements elsewhere.       *)
C10_Navigation == [][NavigateArithmetic(SelectedIdx <= 0)]_vars

\* the caller has called NavigateLeft with nothing visible and nothing
\* selected
C10_Witness ==
    /\ lastCall = "NavigateLeft"
    /\ panic = "none"
    /\ VisibleNodes = <<>>
    /\ SelectedIdx = -1

----------------------------------------------------------------------------
(* C11: a one-level scan of a directory with N entries that pass the       *)
(* filter and are no posters returns min(N, C) children, C being the       *)
(* filter's MaxChildrenShow.  The code breaks it: no statement of          *)
(* loadDirectory reads MaxChildrenShow, and the scan returns all N.        *)
C11_ChildrenCapped ==
    pcMain \in {"scanned", "rescanned"} =>
        Len(bgChildren) =
            Min2(Len(SelectSeq(visited, IsChildEntry)), maxChildrenShow)

----------------------------------------------------------------------------
(* C12: poster association does not depend on the order in which the walk  *)
(* hands the entries over.  Whenever a scanned directory holds a video     *)
(* file and a file named <the video's base name>-poster.jpg, the video's   *)
(* Node has that file as its poster and the file is not among the          *)
(* children, in whichever order the entries were visited.                  *)

\* q is the poster file named after child entry e
PosterOf(q, e) ==
    /\ ~FS[e].isDir /\ IsVideoFile(FS[e].name)
    /\ ~FS[q].isDir
    /\ FS[q].dir = FS[e].dir
    /\ FS[q].name = BaseName(FS[e].name) \o PosterJpg

\* no other poster candidate visited is recorded under q's key
OnlyPoster(q) ==
    \A o \in {visited[i] : i \in 1..Len(visited)} :
        (IsPosterEntry(o) /\ PosterBase(FS[o].name) = PosterBase(FS[q].name))
            => o = q

ScanWalked == pcMain \in {"scanned", "rescanned"}

PosterAssociated(single) ==
    ScanWalked =>
        \A i \in 1..Len(bgChildren) :
            \A j \in 1..Len(visited) :
                (/\ PosterOf(visited[j], heap[bgChildren[i]].path)
                 /\ single => OnlyPoster(visited[j]))
                    => /\ heap[bgChildren[i]].poster = visited[j]
                       /\ \A k \in 1..Len(bgChildren) :
                             heap[bgChildren[k]].path # visited[j]

(* C12 as the specification words it: for every directory that holds the   *)
(* two files, whatever else it holds.                                      *)
C12_Original == PosterAssociated(FALSE)

(* C12 as the code has it: provided no other poster candidate of the       *)
(* directory has the same base name (movie-poster.jpeg beside              *)
(* movie-poster.jpg); of several, the one visited last is the poster.      *)
C12_PosterAnyOrder == PosterAssociated(TRUE)

\* r/ scanned with the poster handed over before the video
C12_Witness ==
    /\ pcMain = "scanned"
    /\ heap[Root].path = 14
    /\ visited = <<16, 15, 17>>
    /\ heap[bgChildren[1]].path = 15
    /\ heap[bgChildren[1]].poster = 16

----------------------------------------------------------------------------
(* C13: a directory Node whose own directory holds a file named            *)
(* <directory name>-poster.jpg has that file as its poster, and the poster *)
(* goes no further down: the poster of any Node is a file of the directory *)
(* the Node itself is an entry of, so the children of Show get theirs from *)
(* inside Show only.                                                       *)
C13_DirectoryPoster ==
    \A n \in DOMAIN heap :
        /\ heap[n].isDir =>
              \A q \in EntriesOf(FS[heap[n].path].dir) :
                  (~FS[q].isDir /\ FS[q].name = FS[heap[n].path].name \o PosterJpg)
                      => heap[n].poster = q
        /\ heap[n].poster # Nil =>
              FS[heap[n].poster].dir = FS[heap[n].path].dir

\* lib/ is loaded: Show has Show-poster.jpg, and its child Show.m4v, whose
\* base name is Show as well, has no poster
C13_Witness ==
    \E n \in DOMAIN heap :
        /\ heap[n].path = 6
        /\ heap[n].poster = 7
        /\ Len(heap[n].children) = 1
        /\ heap[heap[n].children[1]].path = 8
        /\ heap[heap[n].children[1]].poster = Nil

----------------------------------------------------------------------------
(* C14: every child list a scan produces has all directories before all    *)
(* files and each group in the order of the names, and is the same list of *)
(* entries on every rescan; so has VisibleNodes once the load is complete, *)
(* and after Enter and GoUp.  For r/ = {a.mp4, a-poster.jpg, sub/{b.mkv}}: *)
(* at Root the visible Nodes are sub, a directory, and a.mp4, a video with *)
(* a-poster.jpg as its poster; Enter on sub makes sub current and b.mkv    *)
(* the one visible Node; GoUp makes Root current again with selection 0.   *)
DirsFirstByName(h, children) ==
    \A i \in 1..Len(children) :
        \A j \in (i + 1)..Len(children) :
            IF h[children[i]].isDir # h[children[j]].isDir
            THEN h[children[i]].isDir
            ELSE StrLess(FS[h[children[i]].path].name,
                         FS[h[children[j]].path].name)

LoadComplete == Handed /\ pcBg \in {"complete", "progress", "done"}

ExampleLoaded == LoadComplete /\ heap[Root].path = 14

----------------------------------------------------------------------------
(* C15: the cache is only an optimisation.  What the caller can observe,   *)
(* the path of the current directory, the selection, and the visible Nodes *)
(* as a list of (path, isDir, isVideo, poster), is what a walk of the      *)
(* current directory gives, whether the lookups that led there hit,        *)
(* missed or found the entry expired: Enter on a directory shows the walk  *)
(* of that directory with selection 0 (-1 if it is empty), GoUp the walk   *)
(* of the parent directory with selection 0.                               *)
Observed(h, visible) ==
    [i \in 1..Len(visible) |->
        <<h[visible[i]].path, h[visible[i]].isDir, h[visible[i]].isVideo,
          h[visible[i]].poster>>]

\* the same list, taken from the file system by one walk of p
EntriesObserved(listing, order) ==
    [i \in 1..Len(listing) |->
        <<listing[i], FS[listing[i]].isDir,
          ~FS[listing[i]].isDir /\ IsVideoFile(FS[listing[i]].name),
          AssociatedPoster(order, listing[i])>>]

\* the walk of every directory that can be read, computed once
ReadableObserved ==
    [p \in {d \in Paths : FS[d].isDir} |->
        EntriesObserved(SelectSeq(SortDirsFirst(EntriesOf(p)), IsChildEntry),
                        SortDirsFirst(EntriesOf(p)))]

WalkObserved(p) == IF p \in unreadable THEN <<>> ELSE ReadableObserved[p]

C15_CacheTransparent ==
    /\ [](LoadComplete =>
             Observed(heap, VisibleNodes) = WalkObserved(heap[CurrentDir].path))
    /\ [][(Enter /\ HasSelected /\ heap[Selected].isDir) =>
             /\ heap'[CurrentDir'].path = heap[Selected].path
             /\ Observed(heap', VisibleNodes') = WalkObserved(heap[Selected].path)
             /\ SelectedIdx' =
                   IF WalkObserved(heap[Selected].path) = <<>> THEN -1 ELSE 0]_vars
    /\ [][(GoUp /\ CurrentDir # Root) =>
             /\ heap'[CurrentDir'].path = FS[heap[CurrentDir].path].dir
             /\ Observed(heap', VisibleNodes') =
                   WalkObserved(FS[heap[CurrentDir].path].dir)
             /\ SelectedIdx' = 0]_vars

\* the caller is back at Root after entering a directory whose cache entry
\* had expired: two Nodes stand for one path
C15_Witness ==
    /\ LoadComplete
    /\ expired > 0
    /\ lastCall = "GoUp: to parent"
    /\ CurrentDir = Root
    /\ \E m, n \in DOMAIN heap : m # n /\ heap[m].path = heap[n].path
    /\ Observed(heap, VisibleNodes) = WalkObserved(heap[Root].path)

----------------------------------------------------------------------------
(* C16: a Tree starts in Loading; with the warm-up goroutine scheduled     *)
(* fairly it eventually becomes Ready (isLoading false); once Ready it     *)
(* never returns to Loading; the recursive scan is started exactly once,   *)
(* by LoadAsync: the goroutine never goes back to its scan, and no Enter,  *)
(* GoUp or Navigate call touches the goroutine or scans more than the one  *)
(* directory entered, whose new Nodes have no children of their own.       *)
NavigationCall ==
    \/ Enter
    \/ GoUp
    \/ \E cols \in 1..MaxCols : NavigateUp(cols) \/ NavigateDown(cols)
    \/ NavigateLeft
    \/ NavigateRight

C16_LoadingThenReady ==
    /\ [][(pcMain = "start" /\ pcMain' = "spawned") =>
             isLoading' /\ pcBg' = "scan" /\ stack' = <<Frame(Root')>>]_vars
    /\ [](BgRunnable =>
             /\ pcBg \in {"scan", "setroot", "setloading", "make", "copy",
                          "clampHigh", "clampLow", "complete", "progress"}
             /\ pcBg = "scan" =>
                   stack # <<>> /\ Top.phase \in {"enter", "recurse"})
    /\ [](isLoading => BgRunnable)
    /\ (isLoading ~> ~isLoading)
    /\ [][(pcMain # "start" /\ ~isLoading) => ~isLoading']_vars
    /\ [][pcBg' = "scan" => (pcBg = "scan" \/ pcMain = "start")]_vars
    /\ [][NavigationCall =>
             /\ UNCHANGED <<bgVars, isLoading>>
             /\ \A n \in DOMAIN heap' \ DOMAIN heap :
                   /\ HasSelected
                   /\ heap'[n].parent = Selected
                   /\ FS[heap'[n].path].dir = heap[Selected].path
                   /\ heap'[n].children = <<>>]_vars

\* Ready, the goroutine gone, and the caller has since scanned a directory
\* again by entering it
C16_Witness ==
    /\ pcMain = "ready"
    /\ ~isLoading
    /\ pcBg = "done"
    /\ stack = <<>>
    /\ lastCall = "Enter: directory"
    /\ \E i \in 1..Len(VisibleNodes), m \in DOMAIN heap :
          /\ m # VisibleNodes[i]
          /\ heap[m].path = heap[VisibleNodes[i]].path
          /\ heap[VisibleNodes[i]].children = <<>>

----------------------------------------------------------------------------
(* C17: during a scan every entry the walk hands over that the filter does *)
(* not skip increments exactly one counter once, dirsFound for a directory *)
(* and filesFound otherwise, and a skipped entry increments neither.  As   *)
(* stated this counts the poster candidates, which the filter does not     *)
(* skip; the code returns on them before the counters, so the property     *)
(* that holds leaves them out.  A scan answered by the cache walks nothing *)
(* and counts nothing.                                                     *)
NotSkipped(e) == ~ShouldSkip(FS[e].name, FS[e].isDir)

CountedOnce(order, Counts(_)) ==
    /\ filesFound' - filesFound =
          Cardinality({i \in 1..Len(order) :
                          Counts(order[i]) /\ ~FS[order[i]].isDir})
    /\ dirsFound' - dirsFound =
          Cardinality({i \in 1..Len(order) :
                          Counts(order[i]) /\ FS[order[i]].isDir})

ScanCounts(Counts(_)) ==
    (pcMain' # pcMain) =>
        IF lastCall' = "loadDirectory: walked"
        THEN CountedOnce(visited', Counts)
        ELSE CountedOnce(<<>>, Counts)

C17_Original == [][ScanCounts(NotSkipped)]_vars

C17_CountedOnce == [][ScanCounts(IsChildEntry)]_vars

\* lib/ walked: nine entries handed over, two files and two directories
\* counted, three poster candidates and two skipped entries not
C17_Witness ==
    /\ pcMain = "scanned"
    /\ lastCall = "loadDirectory: walked"
    /\ heap[Root].path = 1
    /\ Len(visited) = 9
    /\ Cardinality({i \in 1..9 : IsPosterEntry(visited[i])}) = 3
    /\ Cardinality({i \in 1..9 : ~NotSkipped(visited[i])}) = 2
    /\ filesFound = 2
    /\ dirsFound = 2

----------------------------------------------------------------------------
(* C18: no Node's children are written by two writers at once.  While the  *)
(* warm-up is inside its scan, or has its result still to assign to        *)
(* root.Children, nothing is visible, so Enter returns before it scans;    *)
(* every scan Enter starts, and every assignment it makes to a Node's      *)
(* children, happens with the warm-up out of loadDirectory for good.       *)
WarmUpScanning == pcBg \in {"scan", "setroot"}

C18_OneWriter ==
    /\ [](WarmUpScanning => VisibleNodes = <<>>)
    /\ [][(Enter /\ HasSelected /\ heap[Selected].isDir) =>
             /\ ~WarmUpScanning
             /\ pcBg # "idle"
             /\ stack = <<>>
             /\ heap[Root].children = bgChildren]_vars
    /\ [][(WarmUpScanning /\ heap' # heap) =>
             BgNext /\ UNCHANGED <<pcMain, lastCall, CurrentDir>>]_vars
    /\ [][(pcBg # "idle" /\ ~WarmUpScanning) => ~WarmUpScanning']_vars

\* the caller has entered a directory, and so scanned it, as early as it
\* can: the goroutine has just assigned root.Children and is still running
C18_Witness ==
    /\ lastCall = "Enter: directory"
    /\ pcBg = "setloading"
    /\ isLoading
    /\ CurrentDir # Root
    /\ heap[CurrentDir].parent = Root

----------------------------------------------------------------------------
(* C19: poster recognition and keying are case-insensitive in the suffix   *)
(* and the extension: after a walk, every entry handed over and not        *)
(* skipped whose name is <base> + "-poster" + ".jpg" or ".jpeg" in any     *)
(* letter case is no child, and a file among the children whose name       *)
(* without its extension is <base> has that entry as its poster (when no   *)
(* other poster candidate of the directory has the same <base>).           *)
IsPosterName(name) ==
    \/ HasSuffix(ToLower(name), PosterJpg)
    \/ HasSuffix(ToLower(name), PosterJpeg)

\* <base>: the name without its suffix and extension, whatever their case
AnyCaseBase(name) ==
    IF HasSuffix(ToLower(name), PosterJpg)
    THEN SubSeq(name, 1, Len(name) - Len(PosterJpg))
    ELSE IF HasSuffix(ToLower(name), PosterJpeg)
    THEN SubSeq(name, 1, Len(name) - Len(PosterJpeg))
    ELSE name

C19_PosterAnyCase ==
    ScanWalked =>
        \A j \in 1..Len(visited) :
            (NotSkipped(visited[j]) /\ IsPosterName(FS[visited[j]].name)) =>
                /\ \A i \in 1..Len(bgChildren) :
                      heap[bgChildren[i]].path # visited[j]
                /\ \A i \in 1..Len(bgChildren) :
                      ( /\ BaseName(FS[heap[bgChildren[i]].path].name)
                              = AnyCaseBase(FS[visited[j]].name)
                        /\ \A k \in 1..Len(visited) :
                              ( /\ NotSkipped(visited[k])
                                /\ IsPosterName(FS[visited[k]].name)
                                /\ AnyCaseBase(FS[visited[k]].name)
                                      = AnyCaseBase(FS[visited[j]].name) )
                                 => k = j )
                         => heap[bgChildren[i]].poster = visited[j]

----------------------------------------------------------------------------
(* C20: when the warm-up's scan returns and root.Children is assigned, the *)
(* Node graph mirrors the whole filtered subtree: every directory Node     *)
(* reachable from Root has as children exactly one Node per entry of its   *)
(* directory that is neither skipped nor a poster candidate, in order,     *)
(* with Parent set to it; when the scan of a directory returns, the        *)
(* subtrees of its directory children are already attached (depth-first);  *)
(* and no Node exists for anything inside a skipped directory or inside a  *)
(* directory that is itself a poster candidate.  The graph stays that way  *)
(* for as long as every Node is still attached, that is until Enter walks  *)
(* a directory again and replaces its children.                            *)
RECURSIVE Below(_, _)
Below(h, n) ==
    {n} \cup UNION {Below(h, h[n].children[i]) : i \in 1..Len(h[n].children)}

\* the entries of p that become Nodes, in order, from the walk computed once
Entries(p) ==
    [i \in 1..Len(WalkObserved(p)) |-> WalkObserved(p)[i][1]]

MirrorBelow(h, n) ==
    \A m \in Below(h, n) :
        /\ PathsOf(h, h[m].children) =
              IF h[m].isDir THEN Entries(h[m].path) ELSE <<>>
        /\ \A i \in 1..Len(h[m].children) : h[h[m].children[i]].parent = m

RECURSIVE Ancestors(_)
Ancestors(e) ==
    IF FS[e].dir = 0 THEN {} ELSE {FS[e].dir} \cup Ancestors(FS[e].dir)

\* e lies inside a directory the scan does not descend into
Excluded(e) ==
    \E a \in Ancestors(e) :
        ShouldSkip(FS[a].name, TRUE) \/ IsPosterFile(FS[a].name)

C20_Mirror ==
    /\ [][(pcBg = "setroot" /\ pcBg' = "setloading") =>
             /\ MirrorBelow(heap', Root)
             /\ Below(heap', Root) = DOMAIN heap']_vars
    /\ [][BgFinish =>
             \A i \in 1..Len(Top.children) : MirrorBelow(heap, Top.children[i])]_vars
    /\ []((pcBg \notin {"idle", "scan", "setroot"}
               /\ Below(heap, Root) = DOMAIN heap) => MirrorBelow(heap, Root))
    /\ [](\A n \in DOMAIN heap :
             /\ ~Excluded(heap[n].path)
             /\ n # Root => IsChildEntry(heap[n].path))

\* n/ loaded: three levels of directories attached, and no Node for the
\* directory e-poster.jpg or the file inside it
C20_Witness ==
    /\ pcBg = "setloading"
    /\ heap[Root].path = 19
    /\ MirrorBelow(heap, Root)
    /\ {heap[n].path : n \in DOMAIN heap} = {19, 20, 21, 22, 23}
    /\ \E n \in DOMAIN heap :
          /\ heap[n].path = 21 /\ heap[heap[n].parent].path = 20
          /\ PathsOf(heap, heap[n].children) = <<22>>

----------------------------------------------------------------------------
(* C22: while the loading flag is set, the current directory of a Tree     *)
(* handed to the caller is Root and nothing is visible, so an Enter, GoUp  *)
(* or Navigate call made then leaves the Tree as it is; VisibleNodes       *)
(* becomes non-empty only in a state where the flag is no longer set.      *)
C22_LoadingInert ==
    /\ []((pcMain = "ready" /\ isLoading) =>
             CurrentDir = Root /\ VisibleNodes = <<>>)
    /\ [][(isLoading /\ NavigationCall) => UNCHANGED treeVars]_vars
    /\ [][(VisibleNodes = <<>> /\ VisibleNodes' # <<>>) => ~isLoading']_vars

----------------------------------------------------------------------------
(* C23: after the warm-up, whatever Enter, GoUp and Navigate calls and     *)
(* cache expiries have happened, every Node in VisibleNodes has the Node   *)
(* CurrentDir as its Parent, the same Node and not only the same path; so  *)
(* Enter on a directory makes current a Node whose Parent is the Node that *)
(* was current, which is where a GoUp made next returns to.                *)
C23_ParentIsCurrentDir ==
    /\ [](LoadComplete =>
             \A i \in 1..Len(VisibleNodes) :
                 heap[VisibleNodes[i]].parent = CurrentDir)
    /\ [][(LoadComplete /\ Enter /\ HasSelected /\ heap[Selected].isDir) =>
             heap'[CurrentDir'].parent = CurrentDir]_vars

----------------------------------------------------------------------------
(* C24: once the warm-up has completed, GetStats returns the number of     *)
(* file Nodes and the number of directory Nodes of the tree below Root,    *)
(* and goes on doing so after any Enter, GoUp and Navigate calls, those    *)
(* Enter calls included whose cache lookup misses or finds the entry       *)
(* expired.                                                                *)
GetStats == <<filesFound, dirsFound>>

NodesBelowRoot(dirs) ==
    Cardinality({n \in Below(heap, Root) \ {Root} : heap[n].isDir = dirs})

C24_StatsAreNodeCounts ==
    LoadComplete => GetStats = <<NodesBelowRoot(FALSE), NodesBelowRoot(TRUE)>>

\* C21: Refresh cancels the rendering in progress.  Once Refresh has put a
\* new context in place, the progressiveRender goroutine of an earlier
\* rebuild returns at its next cancellation check, so it hands over no
\* further batch; and the goroutine of the current rebuild is not turned
\* away at its guard while items beyond the first batch remain, so that
\* it is the one that renders them.
C21_RefreshCancels ==
    /\ [][\A l \in 1..MaxRefresh :
             (l < renderCtx /\ RenderCheck(l)) => loops'[l].pc = "done"]_vars
    /\ [](\A l \in 1..MaxRefresh :
             (l = renderCtx /\ loops[l].pc = "skipped") => Len(items) <= BatchSize)


====
